---- MODULE Spec2Model ----
(***************************************************************************)
(* consul-port-redirector: the HTTP handler Server.ServeHTTP of main.go,   *)
(* with the helpers it calls (getHostname, parseConsulAddress,             *)
(* queryConsulForHostname, buildUrlWithPort, guessScheme,                  *)
(* addHostnameSuffix).                                                     *)
(*                                                                         *)
(* Go strings are modelled as sequences of one-character strings, so that  *)
(* prefix, suffix, split and comparison are computed as the Go library     *)
(* computes them.                                                          *)
(***************************************************************************)
EXTENDS Integers, Sequences, FiniteSets, TLC

VARIABLES
    customRoutes,       \* Server.customRoutes: hostname -> URL string
    hostnameSuffix,     \* flag hostnameSuffix
    redirectToNomadUI,  \* flag redirectToNomadUI
    nomadUIHostname,    \* flag nomadUIHostname
    pc,                 \* position of the handler: idle, querying, done
    req,                \* the request being served: Host and URL
    svcName,            \* ServeHTTP's local svcName
    svcType,            \* ServeHTTP's local svcType
    query,              \* arguments of the Catalog().Service call in flight
    queries,            \* number of catalog calls made for this request
    cancelled,          \* the client gave the request up while it was served
    services,           \* what the catalog returned, in the catalog's order
    result,             \* ServeHTTP's local result: the options after the sort
    outcome             \* what the handler did with the response

vars == <<customRoutes, hostnameSuffix, redirectToNomadUI, nomadUIHostname,
          pc, req, svcName, svcType, query, queries, cancelled, services,
          result, outcome>>

config == <<customRoutes, hostnameSuffix, redirectToNomadUI, nomadUIHostname>>

-----------------------------------------------------------------------------
(* Characters and the strings package                                      *)

UpperLetters == << "A","B","C","D","E","F","G","H","I","J","K","L","M",
                   "N","O","P","Q","R","S","T","U","V","W","X","Y","Z" >>

LowerLetters == << "a","b","c","d","e","f","g","h","i","j","k","l","m",
                   "n","o","p","q","r","s","t","u","v","w","x","y","z" >>

Digits == << "0","1","2","3","4","5","6","7","8","9" >>

PosIn(seq, c) == IF \E i \in 1..Len(seq) : seq[i] = c
                 THEN CHOOSE i \in 1..Len(seq) : seq[i] = c
                 ELSE 0

IsLetter(c) == PosIn(UpperLetters, c) # 0 \/ PosIn(LowerLetters, c) # 0

IsDigit(c) == PosIn(Digits, c) # 0

\* the byte value of a character (ASCII), which Go's string < compares
Ord(c) ==
    IF PosIn(LowerLetters, c) # 0 THEN 96 + PosIn(LowerLetters, c)
    ELSE IF PosIn(UpperLetters, c) # 0 THEN 64 + PosIn(UpperLetters, c)
    ELSE IF PosIn(Digits, c) # 0 THEN 47 + PosIn(Digits, c)
    ELSE CASE c = "." -> 46
           [] c = "/" -> 47
           [] c = ":" -> 58
           [] c = "=" -> 61
           [] c = "?" -> 63
           [] c = "[" -> 91
           [] c = "_" -> 95
           [] OTHER   -> 32

RECURSIVE StrLess(_, _)
\* a < b on Go strings: bytewise lexicographic
StrLess(a, b) ==
    IF b = <<>> THEN FALSE
    ELSE IF a = <<>> THEN TRUE
    ELSE IF Head(a) = Head(b) THEN StrLess(Tail(a), Tail(b))
    ELSE Ord(Head(a)) < Ord(Head(b))

LowerChar(c) == IF PosIn(UpperLetters, c) # 0
                THEN LowerLetters[PosIn(UpperLetters, c)]
                ELSE c

ToLower(s) == [i \in 1..Len(s) |-> LowerChar(s[i])]

HasPrefix(s, p) == Len(p) <= Len(s) /\ SubSeq(s, 1, Len(p)) = p

HasSuffix(s, p) == Len(p) <= Len(s) /\ SubSeq(s, Len(s) - Len(p) + 1, Len(s)) = p

TrimPrefix(s, p) == IF HasPrefix(s, p) THEN SubSeq(s, Len(p) + 1, Len(s)) ELSE s

TrimSuffix(s, p) == IF HasSuffix(s, p) THEN SubSeq(s, 1, Len(s) - Len(p)) ELSE s

\* 1-based position of the first occurrence of sep in s, 0 when there is none
Index(s, sep) ==
    LET hits == {i \in 1..(Len(s) - Len(sep) + 1) : SubSeq(s, i, i + Len(sep) - 1) = sep}
    IN  IF hits = {} THEN 0 ELSE CHOOSE i \in hits : \A j \in hits : i <= j

\* 1-based position of the last occurrence of sep in s, 0 when there is none
LastIndex(s, sep) ==
    LET hits == {i \in 1..(Len(s) - Len(sep) + 1) : SubSeq(s, i, i + Len(sep) - 1) = sep}
    IN  IF hits = {} THEN 0 ELSE CHOOSE i \in hits : \A j \in hits : i >= j

Contains(s, sep) == Index(s, sep) # 0

\* strings.Count for a one-character separator
Count(s, c) == Cardinality({i \in 1..Len(s) : s[i] = c})

\* s cut at an occurrence i of a separator of length n; uncut when i = 0
SplitAt(s, n, i) ==
    IF i = 0 THEN << s >>
    ELSE << SubSeq(s, 1, i - 1), SubSeq(s, i + n, Len(s)) >>

\* strings.SplitN(s, sep, 2): one or two parts
SplitN2(s, sep) == SplitAt(s, Len(sep), Index(s, sep))

RECURSIVE Itoa(_)
\* fmt's %d of a non-negative integer
Itoa(n) == IF n < 10 THEN << Digits[n + 1] >>
           ELSE Itoa(n \div 10) \o << Digits[(n % 10) + 1] >>

\* conversion int -> uint16
Uint16(n) == n % 65536

-----------------------------------------------------------------------------
(* Hostname parsing                                                        *)

DotService == << ".", "s", "e", "r", "v", "i", "c", "e", "." >>

\* the end of parseConsulAddress: the guard against IP addresses
parsedAddress(name, type) ==
    IF Count(type, ".") > 0
    THEN [svcName |-> <<>>, svcType |-> <<>>]
    ELSE [svcName |-> name, svcType |-> type]

\* parts = strings.SplitN(svcName, ".", 2): svcName is parts[0], svcType parts[1]
parsedParts(parts) ==
    parsedAddress(TrimPrefix(parts[1], << "_" >>), TrimPrefix(parts[2], << "_" >>))

\* seg is serviceSplit[0], the text before ".service."
parsedSegment(seg) ==
    IF Contains(seg, << "." >>)
    THEN parsedParts(SplitN2(seg, << "." >>))
    ELSE parsedAddress(seg, <<>>)

parseConsulAddress(hostname) == parsedSegment(SplitN2(hostname, DotService)[1])

getHostname(host) == SplitN2(host, << ":" >>)[1]

-----------------------------------------------------------------------------
(* net/url as buildUrlWithPort uses it: URL.String and url.Parse           *)
(* A URL is a record of the fields the handler reads or writes. User,      *)
(* Fragment and percent-escapes are left out: a request URL carries no     *)
(* user or fragment, and the characters used below need no escaping.       *)

EmptyURL == [Scheme |-> <<>>, Opaque |-> <<>>, Host |-> <<>>, Path |-> <<>>, RawQuery |-> <<>>]

\* the part of s before the first "/" (strings.Cut(s, "/"))
FirstSegment(s) == SplitN2(s, << "/" >>)[1]

URLString(u) ==
    LET scheme == IF u.Scheme # <<>> THEN u.Scheme \o << ":" >> ELSE <<>>
        q      == IF u.RawQuery # <<>> THEN << "?" >> \o u.RawQuery ELSE <<>>
        auth   == IF (u.Scheme # <<>> \/ u.Host # <<>>) /\ (u.Host # <<>> \/ u.Path # <<>>)
                  THEN << "/", "/" >> \o u.Host
                  ELSE <<>>
        slash  == IF u.Path # <<>> /\ Head(u.Path) # "/" /\ u.Host # <<>>
                  THEN << "/" >> ELSE <<>>
        buf    == scheme \o auth \o slash
        dot    == IF buf = <<>> /\ Contains(FirstSegment(u.Path), << ":" >>)
                  THEN << ".", "/" >> ELSE <<>>
    IN  IF u.Opaque # <<>>
        THEN scheme \o u.Opaque \o q
        ELSE buf \o dot \o u.Path \o q

\* getScheme: the characters a scheme may hold at position i
SchemeChar(c, i) == IsLetter(c) \/ (i > 1 /\ (IsDigit(c) \/ c \in {"+", "-", "."}))

\* the scheme and the rest of rawURL, k being the first position that holds
\* no scheme character (0 when there is none)
schemeAt(rawURL, k) ==
    IF k = 0 \/ rawURL[k] # ":"
    THEN [err |-> "", scheme |-> <<>>, rest |-> rawURL]
    ELSE IF k = 1
    THEN [err |-> "missing protocol scheme", scheme |-> <<>>, rest |-> rawURL]
    ELSE [err |-> "", scheme |-> SubSeq(rawURL, 1, k - 1),
          rest |-> SubSeq(rawURL, k + 1, Len(rawURL))]

getScheme(rawURL) ==
    LET stops == {i \in 1..Len(rawURL) : ~SchemeChar(rawURL[i], i)}
    IN  schemeAt(rawURL, IF stops = {} THEN 0
                         ELSE CHOOSE i \in stops : \A j \in stops : i <= j)

validOptionalPort(port) ==
    \/ port = <<>>
    \/ /\ Head(port) = ":"
       /\ \A i \in 2..Len(port) : IsDigit(port[i])

\* the bracketed host of parseHost, i being the position of the last "]"
bracketHostErr(host, i) ==
    IF i = 0 THEN "missing ']' in host"
    ELSE IF ~validOptionalPort(SubSeq(host, i + 1, Len(host)))
    THEN "invalid port after host"
    ELSE ""

\* any other host of parseHost, i being the position of the last ":"
plainHostErr(host, i) ==
    IF i # 0 /\ ~validOptionalPort(SubSeq(host, i, Len(host)))
    THEN "invalid port after host"
    ELSE ""

\* parseHost: "" when the host is accepted, else the error
parseHostErr(host) ==
    IF HasPrefix(host, << "[" >>)
    THEN bracketHostErr(host, LastIndex(host, << "]" >>))
    ELSE plainHostErr(host, LastIndex(host, << ":" >>))

urlError(err) == [err |-> err, url |-> EmptyURL]

\* the URL of an authority and the path after it, once the host is checked
parsedWithHost(scheme, authority, path, rawq, hostErr) ==
    IF hostErr # "" THEN urlError(hostErr)
    ELSE [err |-> "", url |-> [Scheme |-> scheme, Opaque |-> <<>>, Host |-> authority,
                               Path |-> path, RawQuery |-> rawq]]

\* after is the text behind the leading "//", i its first "/" (0: none)
parsedAuthority(scheme, after, i, rawq) ==
    IF i = 0
    THEN parsedWithHost(scheme, after, <<>>, rawq, parseHostErr(after))
    ELSE parsedWithHost(scheme, SubSeq(after, 1, i - 1), SubSeq(after, i, Len(after)),
                        rawq, parseHostErr(SubSeq(after, 1, i - 1)))

\* parse once scheme and query are cut off: opaque, authority or path
parsedRest(scheme, rest, rawq) ==
    IF ~HasPrefix(rest, << "/" >>) /\ scheme # <<>>
    THEN [err |-> "", url |-> [EmptyURL EXCEPT !.Scheme = scheme, !.Opaque = rest,
                                               !.RawQuery = rawq]]
    ELSE IF ~HasPrefix(rest, << "/" >>) /\ Contains(FirstSegment(rest), << ":" >>)
    THEN urlError("first path segment in URL cannot contain colon")
    ELSE IF (scheme # <<>> \/ ~HasPrefix(rest, << "/", "/", "/" >>))
            /\ HasPrefix(rest, << "/", "/" >>)
    THEN parsedAuthority(scheme, SubSeq(rest, 3, Len(rest)),
                         Index(SubSeq(rest, 3, Len(rest)), << "/" >>), rawq)
    ELSE [err |-> "", url |-> [Scheme |-> scheme, Opaque |-> <<>>, Host |-> <<>>,
                               Path |-> rest, RawQuery |-> rawq]]

\* the query cut off rest: a lone trailing "?" forces an empty query
parsedQuery(scheme, rest, cut) ==
    IF HasSuffix(rest, << "?" >>) /\ Count(rest, "?") = 1
    THEN parsedRest(scheme, SubSeq(rest, 1, Len(rest) - 1), <<>>)
    ELSE parsedRest(scheme, cut[1], IF Len(cut) = 2 THEN cut[2] ELSE <<>>)

parsedScheme(sc) ==
    IF sc.err # "" THEN urlError(sc.err)
    ELSE parsedQuery(ToLower(sc.scheme), sc.rest, SplitN2(sc.rest, << "?" >>))

\* url.Parse(rawURL): [err, url], err = "" on success
Parse(rawURL) == parsedScheme(getScheme(rawURL))

\* the end of buildUrlWithPort, p being what url.Parse returned; on an
\* error the Go function returns a nil *url.URL
builtUrl(p, hostname, scheme, port) ==
    IF p.err # "" THEN [err |-> p.err, isNil |-> TRUE, url |-> EmptyURL]
    ELSE [err |-> "", isNil |-> FALSE,
          url |-> [p.url EXCEPT !.Scheme = scheme,
                                !.Host = hostname \o << ":" >> \o Itoa(port)]]

buildUrlWithPort(hostname, origUrl, scheme, port) ==
    builtUrl(Parse(URLString(origUrl)), hostname, scheme, port)

SchemeHTTP == << "h", "t", "t", "p" >>

SchemeHTTPS == << "h", "t", "t", "p", "s" >>

RECURSIVE guessSchemeOf(_)
\* the loop of guessScheme over the tags, in the tags' order
guessSchemeOf(tags) ==
    IF tags = <<>> THEN SchemeHTTP
    ELSE IF ToLower(Head(tags)) = SchemeHTTP THEN SchemeHTTP
    ELSE IF ToLower(Head(tags)) = SchemeHTTPS THEN SchemeHTTPS
    ELSE guessSchemeOf(Tail(tags))

\* mutant: https wins whenever some tag names it, whatever comes first
guessScheme_PrefersHTTPS(r) ==
    IF \E i \in 1..Len(r.Tags) : ToLower(r.Tags[i]) = SchemeHTTPS THEN SchemeHTTPS
    ELSE SchemeHTTP

guessScheme(r) == guessSchemeOf(r.Tags)

BuildURL(r, hostname, origUrl) == buildUrlWithPort(hostname, origUrl, guessScheme(r), r.Port)

\* mutant: the suffix is forgotten
addHostnameSuffix_None(hostname, suffix) == hostname

addHostnameSuffix(hostname, suffix) ==
    IF Len(suffix) = 0 THEN hostname
    ELSE hostname \o << "." >> \o TrimPrefix(suffix, << "." >>)

-----------------------------------------------------------------------------
(* Catalog results: conversion and ordering                                *)

\* the RedirectOption queryConsulForHostname makes of a catalog service
toOption(svc) == [Hostname |-> svc.Node, Tags |-> svc.ServiceTags,
                  Port |-> Uint16(svc.ServicePort)]

\* mutant: the two elements are compared the other way round
optionLess_Swapped(x, y) == StrLess(y.Hostname, x.Hostname) /\ y.Port < x.Port

\* the less function handed to sort.Slice
optionLess(x, y) == StrLess(x.Hostname, y.Hostname) /\ x.Port < y.Port

Swap(s, i, j) == [s EXCEPT ![i] = s[j], ![j] = s[i]]

RECURSIVE SiftDown(_, _)
\* inner loop of the insertion sort: for j := i; j > a && less(j, j-1); j--
SiftDown(s, j) ==
    IF j > 1 /\ optionLess(s[j], s[j - 1])
    THEN SiftDown(Swap(s, j, j - 1), j - 1)
    ELSE s

RECURSIVE InsertionSort(_, _)
\* outer loop of the insertion sort: for i := a + 1; i < b; i++
InsertionSort(s, i) ==
    IF i > Len(s) THEN s ELSE InsertionSort(SiftDown(s, i), i + 1)

\* sort.Slice on a slice of at most 12 elements is one insertion sort
sortOptions(options) == InsertionSort(options, 2)

-----------------------------------------------------------------------------
(* What the handler does with the response                                 *)

NomadUIPort == 4646

NoOutcome == [kind |-> "None", status |-> 0, location |-> <<>>, url |-> EmptyURL,
              hostname |-> <<>>, err |-> "", svcName |-> <<>>,
              portTypeSuffix |-> <<>>, entries |-> <<>>]

Plain(kind, status) == [NoOutcome EXCEPT !.kind = kind, !.status = status]

Redirect(kind, u) == [NoOutcome EXCEPT !.kind = kind, !.status = 307,
                                       !.url = u, !.location = URLString(u)]

ErrorPage(kind, hostname, err) == [NoOutcome EXCEPT !.kind = kind, !.status = 500,
                                                    !.hostname = hostname, !.err = err]

\* paths answered before any routing
IsHealthCheck(path) ==
    HasPrefix(TrimPrefix(path, << "/" >>), << "h", "e", "a", "l", "t", "h" >>)

IsMetrics(path) ==
    HasPrefix(TrimPrefix(path, << "/" >>), << "m", "e", "t", "r", "i", "c", "s" >>)

\* the static route of a hostname: exact, or with "." + suffix cut off
DotSuffix == << "." >> \o hostnameSuffix

\* mutant: the exact match is dropped, only the cut hostname is looked up
HasRoute_OnlyCut(hostname) ==
    /\ HasSuffix(hostname, DotSuffix)
    /\ TrimSuffix(hostname, DotSuffix) \in DOMAIN customRoutes

HasRoute(hostname) ==
    \/ hostname \in DOMAIN customRoutes
    \/ /\ HasSuffix(hostname, DotSuffix)
       /\ TrimSuffix(hostname, DotSuffix) \in DOMAIN customRoutes

RouteOf(hostname) ==
    IF hostname \in DOMAIN customRoutes
    THEN customRoutes[hostname]
    ELSE customRoutes[TrimSuffix(hostname, DotSuffix)]

\* mutant: the shortcut asks for "." + suffix, as the static routes do
IsNomadUI_DotSuffix(hostname) ==
    redirectToNomadUI /\ (HasSuffix(hostname, DotSuffix) \/ hostname = nomadUIHostname)

\* the condition of the Nomad UI shortcut
IsNomadUI(hostname) ==
    redirectToNomadUI /\ (HasSuffix(hostname, hostnameSuffix) \/ hostname = nomadUIHostname)

UIPath == << "/", "u", "i", "/", "c", "l", "i", "e", "n", "t", "s" >>

SearchEq == << "s", "e", "a", "r", "c", "h", "=" >>

\* mutant: only the path "/" is sent to the clients page, the empty path is not
NomadUIResponse_SlashOnly(hostname, b) ==
    IF b.isNil THEN Plain("Panic", 0)
    ELSE IF b.err # "" THEN ErrorPage("UrlBuildError", hostname, b.err)
    ELSE IF b.url.Path = << "/" >>
    THEN Redirect("UiRedirect", [b.url EXCEPT !.Path = UIPath,
                                              !.RawQuery = SearchEq \o hostname])
    ELSE Redirect("UiRedirect", b.url)

\* the Nomad UI shortcut once buildUrlWithPort has returned b: the fields of
\* redirUrl are read, and written, before err is looked at
NomadUIResponse(hostname, b) ==
    IF b.isNil THEN Plain("Panic", 0)
    ELSE IF b.err # "" THEN ErrorPage("UrlBuildError", hostname, b.err)
    ELSE IF b.url.Path = <<>> \/ b.url.Path = << "/" >>
    THEN Redirect("UiRedirect", [b.url EXCEPT !.Path = UIPath,
                                              !.RawQuery = SearchEq \o hostname])
    ELSE Redirect("UiRedirect", b.url)

NomadUIRedirect(hostname, origUrl) ==
    NomadUIResponse(hostname, buildUrlWithPort(hostname, origUrl, SchemeHTTP, NomadUIPort))

RECURSIVE Join(_, _)
\* strings.Join
Join(elems, sep) ==
    IF elems = <<>> THEN <<>>
    ELSE IF Len(elems) = 1 THEN elems[1]
    ELSE elems[1] \o sep \o Join(Tail(elems), sep)

\* the text shown for the tags of an option, joined being their Join
TagsText(joined) ==
    IF Len(joined) > 0 THEN << " ", "(" >> \o joined \o << ")" >> ELSE joined

TagsDisplay(tags) == TagsText(Join(tags, << ",", " " >>))

portTypeSuffixOf(type) ==
    IF Len(type) > 0
    THEN << " and port type <code>" >> \o type \o << "</code>" >>
    ELSE <<>>

\* one pass of the loop over result, b being what BuildURL returned
ListEntryOf(option, fullHostname, b) ==
    [err |-> b.err,
     entry |-> [Url |-> b.url, FullHostname |-> fullHostname,
                Port |-> option.Port, Tags |-> TagsDisplay(option.Tags)]]

ListEntryAt(option, fullHostname, origUrl) ==
    ListEntryOf(option, fullHostname, BuildURL(option, fullHostname, origUrl))

ListEntry(option, origUrl) ==
    ListEntryAt(option, addHostnameSuffix(option.Hostname, hostnameSuffix), origUrl)

\* the single result, b being what BuildURL returned
SingleResult(hostname, b) ==
    IF b.err # "" THEN ErrorPage("UrlBuildError", hostname, b.err)
    ELSE Redirect("SingleRedirect", b.url)

\* the loop over two or more results: it returns at the first URL that
\* cannot be built, having written nothing
ListResults(name, type, built) ==
    IF \E i \in 1..Len(built) : built[i].err # ""
    THEN Plain("NothingWritten", 200)
    ELSE [NoOutcome EXCEPT !.kind = "MultipleResults", !.status = 200,
                           !.svcName = name,
                           !.portTypeSuffix = portTypeSuffixOf(type),
                           !.entries = [i \in 1..Len(built) |-> built[i].entry]]

\* ServeHTTP from the return of queryConsulForHostname to its end
AfterQuery(hostname, origUrl, name, type, options, err) ==
    IF err # "" THEN ErrorPage("QueryError", hostname, err)
    ELSE IF Len(options) = 1
    THEN SingleResult(hostname, BuildURL(options[1], hostname, origUrl))
    ELSE IF Len(options) = 0
    THEN [NoOutcome EXCEPT !.kind = "NoResults", !.status = 404, !.svcName = name,
                           !.portTypeSuffix = portTypeSuffixOf(type)]
    ELSE ListResults(name, type,
                     [i \in 1..Len(options) |-> ListEntry(options[i], origUrl)])

Done(out, name, type) == [next |-> "done", out |-> out, name |-> name, type |-> type]

\* ServeHTTP from parseConsulAddress on, p being what it returned for the
\* hostname (in ServeHTTP, and again in queryConsulForHostname)
Lookup(hostname, origUrl, p) ==
    IF p.svcName = <<>>
    THEN Done([NoOutcome EXCEPT !.kind = "ParseError", !.status = 200,
                                !.hostname = hostname], p.svcName, p.svcType)
    ELSE IF p.svcName = <<>> /\ p.svcType = <<>>
    THEN Done(AfterQuery(hostname, origUrl, p.svcName, p.svcType, <<>>, ""),
              p.svcName, p.svcType)
    ELSE [next |-> "querying", out |-> NoOutcome, name |-> p.svcName, type |-> p.svcType]

\* ServeHTTP from its start to the catalog call, or to its end when it
\* does not get that far
Routing(hostname, origUrl) ==
    IF IsHealthCheck(origUrl.Path) THEN Done(Plain("Health", 200), <<>>, <<>>)
    ELSE IF IsMetrics(origUrl.Path) THEN Done(Plain("Metrics", 200), <<>>, <<>>)
    ELSE IF HasRoute(hostname)
    THEN Done([NoOutcome EXCEPT !.kind = "StaticRedirect", !.status = 307,
                                !.location = RouteOf(hostname)], <<>>, <<>>)
    ELSE IF IsNomadUI(hostname)
    THEN Done(NomadUIRedirect(hostname, origUrl), <<>>, <<>>)
    ELSE Lookup(hostname, origUrl, parseConsulAddress(hostname))

-----------------------------------------------------------------------------
(* The inputs the model draws from                                         *)

MaxServices == 2

Str_x == << "x" >>

Str_dotx == << ".", "x" >>

Str_u == << "u" >>

Str_r == << "r" >>

RouteTarget == << "h", "t", "t", "p", ":", "/", "/", "t", "/" >>

\* hostname port.svc.service.dc.consul of two labels
ServiceHost(port, svc) ==
    port \o << "." >> \o svc \o DotService \o << "d", "c", ".", "c", "o", "n", "s", "u", "l" >>

Labels == { << "w" >>, << "_", "w" >>, << "a", "p", "i" >>, << "_", "a", "p", "i" >> }

PortLabels == { << "w" >>, << "_", "w" >> }

SvcLabels == { << "a", "p", "i" >>, << "_", "a", "p", "i" >> }

FormHosts == { ServiceHost(<< "w" >>, << "a", "p", "i" >>),
               ServiceHost(<< "_", "w" >>, << "_", "a", "p", "i" >>) }

Hosts ==
    { Str_r,                                          \* a static route
      << "r", ":", "8" >>,                            \* the same, with a port
      << "r", ".", "x" >>,                            \* a static route plus ".x"
      << "n", "x" >>,                                 \* ends in "x", not in ".x"
      << "n", ".", "x" >>,                            \* a node name
      Str_u,                                          \* the Nomad UI hostname
      << "a", "p", "i" >> \o DotService \o Str_x,     \* a service, no port type
      << "1", ".", "2", ".", "3" >> \o DotService \o Str_x } \* an IP-like name
    \cup FormHosts

URLOf(path, rawQuery) == [EmptyURL EXCEPT !.Path = path, !.RawQuery = rawQuery]

Str_q == << "q", "=", "1" >>

\* request URLs as net/http hands them to a handler: path and query only
RequestURLs ==
    { URLOf(<<>>, <<>>),
      URLOf(<< "/" >>, <<>>),
      URLOf(<< "/" >>, Str_q),
      URLOf(<< "/", "a" >>, Str_q),
      URLOf(<< "/", "h", "e", "a", "l", "t", "h", "z" >>, <<>>),
      URLOf(<< "/", "m", "e", "t", "r", "i", "c", "s" >>, Str_q),
      URLOf(<< "/", "/" >>, <<>>),
      URLOf(<< "/", "/", "a", "/", "b" >>, Str_q),
      URLOf(<< "/", "/", "a", ":", "b" >>, <<>>),
      URLOf(<< "/", "/", "/", "a" >>, <<>>) }

Tag_http == << "h", "t", "t", "p" >>

Tag_https == << "h", "t", "t", "p", "s" >>

Tag_HTTPS == << "H", "T", "T", "P", "S" >>

Tag_web == << "w", "e", "b" >>

Node_a == << "a" >>

Node_b == << "b" >>

\* services the catalog may return; 65538 does not fit a uint16
CatalogServices ==
    { [Node |-> Node_b, ServiceTags |-> << Tag_https, Tag_http >>, ServicePort |-> 2],
      [Node |-> Node_a, ServiceTags |-> << Tag_http, Tag_https >>, ServicePort |-> 1],
      [Node |-> Node_a, ServiceTags |-> << Tag_web, Tag_HTTPS >>, ServicePort |-> 65538],
      [Node |-> Node_b, ServiceTags |-> <<>>, ServicePort |-> 1] }

RECURSIVE SeqsUpTo(_, _)
SeqsUpTo(S, n) ==
    IF n = 0 THEN { <<>> }
    ELSE LET shorter == SeqsUpTo(S, n - 1)
         IN  shorter \cup { Append(s, e) : s \in shorter, e \in S }

CatalogReplies == SeqsUpTo(CatalogServices, MaxServices)

RouteTables == { << >>, [h \in { Str_r } |-> RouteTarget] }

NoRequest == [Host |-> <<>>, URL |-> EmptyURL]

NoQuery == [service |-> <<>>, tag |-> <<>>]

-----------------------------------------------------------------------------
(* The state machine                                                       *)

Init ==
    /\ customRoutes \in RouteTables
    /\ hostnameSuffix \in { <<>>, Str_x, Str_dotx }
    /\ redirectToNomadUI \in BOOLEAN
    /\ nomadUIHostname \in { <<>>, Str_u }
    /\ pc = "idle"
    /\ req = NoRequest
    /\ svcName = <<>>
    /\ svcType = <<>>
    /\ query = NoQuery
    /\ queries = 0
    /\ cancelled = FALSE
    /\ services = <<>>
    /\ result = <<>>
    /\ outcome = NoOutcome

\* a request arrives: ServeHTTP runs to its end or to the catalog call
ServeHTTP(host, origUrl) ==
    /\ pc = "idle"
    /\ req' = [Host |-> host, URL |-> origUrl]
    /\ \E r \in { Routing(getHostname(host), origUrl) } :
        /\ pc' = r.next
        /\ outcome' = r.out
        /\ svcName' = r.name
        /\ svcType' = r.type
        /\ query' = IF r.next = "querying"
                    THEN [service |-> r.name, tag |-> r.type] ELSE NoQuery
        /\ queries' = IF r.next = "querying" THEN 1 ELSE 0
    /\ UNCHANGED <<config, cancelled, services, result>>

\* Catalog().Service returns services: the rest of queryConsulForHostname
\* and of ServeHTTP; neither looks at a context
CatalogReturns(svcs) ==
    /\ pc = "querying"
    /\ services' = svcs
    /\ \E options \in { sortOptions([i \in 1..Len(svcs) |-> toOption(svcs[i])]) } :
        /\ result' = options
        /\ outcome' = AfterQuery(getHostname(req.Host), req.URL, svcName, svcType, options, "")
    /\ pc' = "done"
    /\ UNCHANGED <<config, req, svcName, svcType, query, queries, cancelled>>

\* Catalog().Service returns an error
CatalogFails ==
    /\ pc = "querying"
    /\ outcome' = AfterQuery(getHostname(req.Host), req.URL, svcName, svcType, <<>>,
                             "consul error")
    /\ pc' = "done"
    /\ UNCHANGED <<config, req, svcName, svcType, query, queries, cancelled, services, result>>

\* the client gives the request up while the catalog call is in flight; the
\* handler runs the call under context.Background() and never learns of it
ClientCancels ==
    /\ pc = "querying"
    /\ ~cancelled
    /\ cancelled' = TRUE
    /\ UNCHANGED <<config, pc, req, svcName, svcType, query, queries, services, result, outcome>>

\* the handler has returned; the server takes the next request
NextRequest ==
    /\ pc = "done"
    /\ pc' = "idle"
    /\ req' = NoRequest
    /\ svcName' = <<>>
    /\ svcType' = <<>>
    /\ query' = NoQuery
    /\ queries' = 0
    /\ cancelled' = FALSE
    /\ services' = <<>>
    /\ result' = <<>>
    /\ outcome' = NoOutcome
    /\ UNCHANGED config

Next ==
    \/ \E host \in Hosts, origUrl \in RequestURLs : ServeHTTP(host, origUrl)
    \/ \E svcs \in CatalogReplies : CatalogReturns(svcs)
    \/ CatalogFails
    \/ ClientCancels
    \/ NextRequest

Spec == Init /\ [][Next]_vars

-----------------------------------------------------------------------------
(* Properties                                                              *)

\* the hostname of the request being served, its port cut off
Hostname == getHostname(req.Host)

Str_health == << "h", "e", "a", "l", "t", "h" >>

Str_metrics == << "m", "e", "t", "r", "i", "c", "s" >>

\* the request path is none of those answered 200 before any routing: with
\* one leading "/" removed it begins neither with "health" nor with "metrics"
Routed ==
    /\ ~HasPrefix(TrimPrefix(req.URL.Path, << "/" >>), Str_health)
    /\ ~HasPrefix(TrimPrefix(req.URL.Path, << "/" >>), Str_metrics)

\* url.Parse accepts the text of the request URL
Reparses == Parse(URLString(req.URL)).err = ""

\* the handler called the catalog for this request and has returned
CatalogStepDone == pc = "done" /\ queries = 1

CatalogKinds == {"SingleRedirect", "NoResults", "MultipleResults", "QueryError",
                 "UrlBuildError"}

\* the handler ended in the Nomad UI shortcut, without parsing or querying
EndedInUIStep ==
    /\ pc = "done"
    /\ outcome.kind \in {"UiRedirect", "UrlBuildError", "Panic"}
    /\ queries = 0
    /\ svcName = <<>>
    /\ svcType = <<>>

HostPort(hostname, port) == hostname \o << ":" >> \o Itoa(port)

\* a node hostname with the configured suffix appended, one "." between them
FullyQualified(node) ==
    IF hostnameSuffix = <<>> THEN node
    ELSE IF Head(hostnameSuffix) = "." THEN node \o hostnameSuffix
    ELSE node \o << "." >> \o hostnameSuffix

\* C1 as stated: a request whose hostname is a key of the static route table
\* is answered with a StaticRedirect to the table's URL, whatever its path,
\* and the catalog is not queried.
C1_StaticWhateverPath ==
    (pc # "idle" /\ Hostname \in DOMAIN customRoutes)
        => /\ pc = "done"
           /\ outcome.kind = "StaticRedirect"
           /\ outcome.location = customRoutes[Hostname]
           /\ queries = 0

\* C1 amended: the same for every request whose path is not a health or
\* metrics path; the flag, the suffix and the catalog do not matter.
C1_StaticPrecedence ==
    (pc # "idle" /\ Hostname \in DOMAIN customRoutes /\ Routed)
        => /\ pc = "done"
           /\ outcome.kind = "StaticRedirect"
           /\ outcome.status = 307
           /\ outcome.location = customRoutes[Hostname]
           /\ queries = 0

C1_Witness ==
    /\ pc = "done"
    /\ Hostname \in DOMAIN customRoutes
    /\ redirectToNomadUI
    /\ hostnameSuffix = <<>>
    /\ req.URL.Path = << "/", "/", "a", ":", "b" >>
    /\ outcome.kind = "StaticRedirect"

\* every listed URL of a MultipleResults outcome has the host
\* <node hostname with the suffix appended>:<port> of its option
ListedHosts ==
    (CatalogStepDone /\ Len(services) >= 2 /\ outcome.kind = "MultipleResults")
        => /\ Len(outcome.entries) = Len(result)
           /\ \A i \in 1..Len(result) :
                outcome.entries[i].Url.Host
                    = HostPort(FullyQualified(result[i].Hostname), result[i].Port)

\* C2 as stated: one catalog entry always gives a SingleRedirect whose host is
\* the request hostname joined with the entry's port; two or more entries are
\* listed with the node hostname, suffix appended, and their own port.
C2_SingleAlwaysRedirects ==
    /\ (CatalogStepDone /\ Len(services) = 1)
           => /\ outcome.kind = "SingleRedirect"
              /\ outcome.url.Host = HostPort(Hostname, result[1].Port)
    /\ ListedHosts

\* C2 amended: one catalog entry gives a SingleRedirect with that host when
\* the request URL can be parsed again, and a UrlBuildError otherwise; the
\* listing of two or more entries is as stated.
C2_SingleUsesRequestHostname ==
    /\ (CatalogStepDone /\ Len(services) = 1 /\ Reparses)
           => /\ outcome.kind = "SingleRedirect"
              /\ outcome.url.Host = HostPort(Hostname, result[1].Port)
              /\ result[1].Port = services[1].ServicePort % 65536
    /\ (CatalogStepDone /\ Len(services) = 1 /\ ~Reparses)
           => /\ outcome.kind = "UrlBuildError"
              /\ outcome.hostname = Hostname
    /\ ListedHosts

C2_Witness ==
    /\ CatalogStepDone
    /\ Len(services) = 2
    /\ hostnameSuffix = Str_x
    /\ outcome.kind = "MultipleResults"
    /\ outcome.entries[1].Url.Host = << "a", ".", "x", ":", "1" >>

\* C3 as stated: for a hostname port.svc.service.dc.consul the parse gives
\* serviceName = svc and portType = port, a leading "_" of each removed.
C3_PortThenService ==
    \A port \in Labels, svc \in Labels :
        (pc # "idle" /\ queries = 1 /\ Hostname = ServiceHost(port, svc))
            => /\ svcName = TrimPrefix(svc, << "_" >>)
               /\ svcType = TrimPrefix(port, << "_" >>)
               /\ query = [service |-> TrimPrefix(svc, << "_" >>),
                           tag |-> TrimPrefix(port, << "_" >>)]

\* the catalog returned {b, 2} and then {a, 1}
ReturnedB2A1 ==
    /\ CatalogStepDone
    /\ Len(services) = 2
    /\ services[1].Node = Node_b /\ services[1].ServicePort = 2
    /\ services[2].Node = Node_a /\ services[2].ServicePort = 1

\* C4 as stated: the sort leaves [{b, 2}, {a, 1}] in this order.
C4_NotSwapped ==
    ReturnedB2A1 => /\ result[1].Hostname = Node_b
                    /\ result[2].Hostname = Node_a

\* C4 amended: the sort swaps them, less({a, 1}, {b, 2}) being true: the
\* order is a then b, in result and in the listing made of it.
C4_Swapped ==
    ReturnedB2A1
        => /\ result[1].Hostname = Node_a /\ result[1].Port = 1
           /\ result[2].Hostname = Node_b /\ result[2].Port = 2
           /\ outcome.kind = "MultipleResults"
                  => /\ outcome.entries[1].Port = 1
                     /\ outcome.entries[2].Port = 2

C4_Witness ==
    /\ ReturnedB2A1
    /\ outcome.kind = "MultipleResults"
    /\ outcome.entries[1].FullHostname = Node_a
    /\ outcome.entries[2].FullHostname = Node_b

\* C5 as stated: a request cancelled while its catalog query is in flight
\* gets no outcome.
C5_CancelledGetsNoOutcome ==
    ~(cancelled /\ CatalogStepDone /\ outcome.kind \in CatalogKinds)

\* the request came to the Nomad UI shortcut
InUIStep == pc = "done" /\ Routed /\ ~HasRoute(Hostname) /\ IsNomadUI(Hostname)

\* C6 as stated: when the URL of the Nomad UI shortcut cannot be built the
\* outcome is a UrlBuildError with the hostname and the error, not a panic.
C6_UIBuildFailureIsAnOutcome ==
    (InUIStep /\ ~Reparses)
        => /\ outcome.kind = "UrlBuildError"
           /\ outcome.hostname = Hostname
           /\ outcome.err = Parse(URLString(req.URL)).err

\* C7 as stated: a resolution that reaches the catalog ends with one of
\* SingleRedirect, NoResults, MultipleResults, QueryError, UrlBuildError.
C7_OneOutcome ==
    CatalogStepDone
        => /\ outcome.kind \in CatalogKinds
           /\ (Len(services) >= 2 /\ ~Reparses) => outcome.kind = "UrlBuildError"

\* the path url.Parse gives back for a request path: a path that begins
\* with exactly two slashes loses them and the text up to the next "/"
ReparsedPath(path) ==
    IF HasPrefix(path, << "/", "/" >>) /\ ~HasPrefix(path, << "/", "/", "/" >>)
    THEN IF Index(SubSeq(path, 3, Len(path)), << "/" >>) = 0 THEN <<>>
         ELSE SubSeq(path, 2 + Index(SubSeq(path, 3, Len(path)), << "/" >>), Len(path))
    ELSE path

\* no static route, the shortcut enabled, the hostname ending in the suffix
SuffixShortcut ==
    /\ pc = "done"
    /\ ~HasRoute(Hostname)
    /\ redirectToNomadUI
    /\ HasSuffix(Hostname, hostnameSuffix)

FirstSchemeTag(tags) ==
    LET hits == {i \in 1..Len(tags) : ToLower(tags[i]) \in {Tag_http, Tag_https}}
    IN  IF hits = {} THEN Tag_http
        ELSE ToLower(tags[CHOOSE i \in hits : \A j \in hits : i <= j])

\* C9: the scheme of a redirect or of a listed URL is the one named by the
\* first http or https tag of its option, in the order the catalog gave the
\* tags, and http when there is none: [http, https] gives http and
\* [https, http] gives https.
C9_FirstTagWins ==
    /\ (CatalogStepDone /\ outcome.kind = "SingleRedirect")
           => /\ result[1].Tags = services[1].ServiceTags
              /\ outcome.url.Scheme = FirstSchemeTag(services[1].ServiceTags)
              /\ services[1].ServiceTags = << Tag_http, Tag_https >>
                     => outcome.url.Scheme = Tag_http
              /\ services[1].ServiceTags = << Tag_https, Tag_http >>
                     => outcome.url.Scheme = Tag_https
    /\ (CatalogStepDone /\ outcome.kind = "MultipleResults")
           => \A i \in 1..Len(result) :
                outcome.entries[i].Url.Scheme = FirstSchemeTag(result[i].Tags)

C9_Witness ==
    /\ CatalogStepDone
    /\ outcome.kind = "SingleRedirect"
    /\ services[1].ServiceTags = << Tag_https, Tag_http >>
    /\ outcome.url.Scheme = Tag_https

\* C10 as stated: with the shortcut enabled, every request whose hostname has
\* no static route and ends in the suffix text, "." before it or not, ends in
\* the shortcut; with an empty suffix that is every such request, and none
\* is parsed or sent to the catalog.
C10_EveryRequestShortcut ==
    (pc # "idle" /\ redirectToNomadUI /\ ~HasRoute(Hostname)
                 /\ HasSuffix(Hostname, hostnameSuffix))
        => EndedInUIStep

\* C10 amended: the same for every request whose path is not a health or
\* metrics path; a health or metrics request is not parsed or sent to the
\* catalog either.
C10_ShortcutCapturesAll ==
    /\ (pc # "idle" /\ redirectToNomadUI /\ ~HasRoute(Hostname)
                    /\ HasSuffix(Hostname, hostnameSuffix) /\ Routed)
           => EndedInUIStep
    /\ (pc # "idle" /\ redirectToNomadUI /\ hostnameSuffix = <<>> /\ ~HasRoute(Hostname))
           => /\ pc = "done"
              /\ queries = 0
              /\ outcome.kind \notin {"SingleRedirect", "MultipleResults", "NoResults",
                                      "ParseError", "QueryError"}

C10_Witness ==
    /\ pc = "done"
    /\ redirectToNomadUI
    /\ hostnameSuffix = <<>>
    /\ Hostname \in FormHosts
    /\ outcome.kind = "UiRedirect"

====
